---- MODULE Spec2Model ----
(***************************************************************************)
(* Model of src/yb/server/pprof-path-handlers_util.cc: the aggregation of  *)
(* tcmalloc stack samples into per-call-stack totals, the ranking of the   *)
(* totals, the rendering of the top call stacks, and the collection of an  *)
(* allocation profile with a temporary sampling rate.                      *)
(***************************************************************************)
EXTENDS Integers, Sequences, FiniteSets, Bags, TLC

VARIABLES
    pc,                     \* position of the report request in the pipeline
    backend,                \* "google" (YB_GOOGLE_TCMALLOC) or "gperftools"
    only_growth,            \* parameter of AggregateAndSortProfile
    visited,                \* history: bag of the raw samples handed to the aggregator
    samples,                \* gperftools: the flattened array of ReadStackTraces
    cursor,                 \* gperftools: index of the current sample in the array
    samples_map,            \* stack text -> SampleInfo
    failed_symbolizations,  \* the failure counter of the run
    order,                  \* parameter: SampleOrder
    unsorted,               \* history: the vector handed to SortSamplesByOrder, as it was
    samples_vec,            \* the vector<Sample> returned / rendered
    output,                 \* what GenerateTable wrote
    sampling_rate,          \* the allocator's profile sampling rate (process wide)
    rate0,                  \* history: the rate before any call
    tpc,                    \* per request thread: position in GetAllocationProfile
    prev_sample_rate,       \* per thread: local of GetAllocationProfile
    sample_freq_bytes,      \* per thread: argument of GetAllocationProfile
    calls                   \* per thread: calls begun

vars == <<pc, backend, only_growth, visited, samples, cursor, samples_map,
          failed_symbolizations, order, unsorted, samples_vec, output,
          sampling_rate, rate0, tpc, prev_sample_rate, sample_freq_bytes, calls>>

aggVars == <<backend, only_growth, visited, samples, cursor, samples_map,
             failed_symbolizations>>
rankVars == <<order, unsorted, samples_vec, output>>
profVars == <<sampling_rate, rate0, tpc, prev_sample_rate, sample_freq_bytes, calls>>

----------------------------------------------------------------------------
(* Bounds and input domains *)

MaxSamples == 2         \* samples one profile delivers
MaxEntries == 3         \* entries of a list handed to the ranker
MaxCallStacks == 3      \* largest max_call_stacks
MaxCalls == 2           \* calls of GetAllocationProfile per request thread

BufSize == 256          \* char buf[256]

Addrs == {1, 2}                  \* raw code addresses
Counts == {-1, 0, 1, 2}          \* tcmalloc sample.count (negative: deallocation)
HeapCounts == {1, 2}             \* gperftools sample count (0 is the end marker)
Sizes == {1, 2}                  \* bytes of one sample
InfoBytes == {0, 2, 3}           \* SampleInfo.bytes of an entry handed to the ranker
InfoCounts == {0, 1, 2}          \* SampleInfo.count of an entry handed to the ranker
Orders == {"kBytes", "kCount"}
Rates == {1, 2, 3}
Threads == {"t1", "t2"}

RECURSIVE SeqsUpTo(_, _)
SeqsUpTo(S, n) ==
    IF n = 0 THEN {<<>>}
    ELSE LET shorter == SeqsUpTo(S, n - 1)
         IN  shorter \cup {Append(s, x) : s \in shorter, x \in S}

\* The call stacks of a sample: up to two frames.
Stacks == SeqsUpTo(Addrs, 2)

RECURSIVE SumF(_, _)
SumF(f, S) ==
    IF S = {} THEN 0
    ELSE LET x == CHOOSE y \in S : TRUE
         IN  f[x] + SumF(f, S \ {x})

Min(a, b) == IF a < b THEN a ELSE b

----------------------------------------------------------------------------
(* Symbolization *)

\* What the symbolizer knows of each address: the symbol and its length.
SymbolTable ==
    [a \in Addrs |->
        IF a = 1 THEN [name |-> "foo", len |-> 3]
                 ELSE [name |-> "long_symbol", len |-> 300]]

\* Symbolize(pc, out, out_size): false when the symbol does not fit in out.
Symbolize(a, out_size) ==
    LET sym == SymbolTable[a]
    IN  IF sym.len < out_size
        THEN [ok |-> TRUE, buf |-> sym.name]
        ELSE [ok |-> FALSE, buf |-> ""]

\* Variant of StackKey that writes nothing for a frame that does not resolve.
RECURSIVE StackKeySkipFailed(_)
StackKeySkipFailed(stack) ==
    IF stack = <<>> THEN <<>>
    ELSE LET r == Symbolize(Head(stack), BufSize)
         IN  (IF r.ok THEN <<r.buf, "\n">> ELSE <<>>) \o StackKeySkipFailed(Tail(stack))

\* The frame loop: sstream << buf << endl, or the placeholder, frame by frame.
\* The text is the sequence of the pieces written to the stream.
RECURSIVE StackKey(_)
StackKey(stack) ==
    IF stack = <<>> THEN <<>>
    ELSE LET r == Symbolize(Head(stack), BufSize)
         IN  (IF r.ok THEN <<r.buf, "\n">> ELSE <<"Failed to symbolize", "\n">>)
             \o StackKey(Tail(stack))

\* ++failed_symbolizations, once per frame that does not resolve.
RECURSIVE FailedFrames(_)
FailedFrames(stack) ==
    IF stack = <<>> THEN 0
    ELSE (IF Symbolize(Head(stack), BufSize).ok THEN 0 ELSE 1) + FailedFrames(Tail(stack))

----------------------------------------------------------------------------
(* AggregateAndSortProfile (tcmalloc) *)

ProfileSamples ==
    {[count |-> c, allocated_size |-> b, is_censored |-> z, depth |-> Len(st), stack |-> st] :
        c \in Counts, b \in Sizes, z \in BOOLEAN, st \in Stacks}

\* Variant of KeepSample that lets a sample of count 0 through.
KeepSampleNegativeOnly(s, growth) ==
    ~(s.count < 0) /\ ~(growth /\ ~s.is_censored)

\* The two early returns of the Iterate callback, negated.
KeepSample(s, growth) ==
    ~(s.count <= 0) /\ ~(growth /\ ~s.is_censored)

\* auto& entry = samples_map[stack]: the entry, value-initialised when absent.
EntryOf(map, key) ==
    IF key \in DOMAIN map THEN map[key] ELSE [bytes |-> 0, count |-> 0]

Put(map, key, info) ==
    [k \in DOMAIN map \cup {key} |-> IF k = key THEN info ELSE map[k]]

\* Variant of AddProfileSample that assigns the bytes instead of adding them.
AddProfileSampleOverwrite(map, key, s) ==
    Put(map, key, [bytes |-> s.allocated_size, count |-> EntryOf(map, key).count + 1])

\* entry.bytes += sample.allocated_size; ++entry.count;
AddProfileSample(map, key, s) ==
    LET entry == EntryOf(map, key)
    IN  Put(map, key, [bytes |-> entry.bytes + s.allocated_size, count |-> entry.count + 1])

(* Sorting *)

\* Variants of Comp: one that ignores the order asked for, one that ascends.
CompBytesOnly(ord, a, b) == a.second.bytes > b.second.bytes

CompAscending(ord, a, b) ==
    IF ord = "kBytes" THEN a.second.bytes < b.second.bytes
    ELSE a.second.count < b.second.count

\* The comparator lambda of SortSamplesByOrder.
Comp(ord, a, b) ==
    IF ord = "kBytes" THEN a.second.bytes > b.second.bytes
    ELSE a.second.count > b.second.count

Reorder(vec, p) == [i \in 1..Len(vec) |-> vec[p[i]]]

\* std::sort: some permutation of the vector in which no element is ordered
\* before an earlier one by the comparator; equal elements in any order.
SortSamplesByOrder(vec, ord) ==
    {Reorder(vec, p) : p \in
        {q \in Permutations(1..Len(vec)) :
            \A i, j \in 1..Len(vec) : i < j => ~Comp(ord, vec[q[j]], vec[q[i]])}}

\* Variant of CopyMapKeys that leaves one entry of the map out.
CopyMapDropOne(map) ==
    LET keys == DOMAIN map
    IN  {v \in SeqsUpTo(keys, Cardinality(keys)) :
            /\ Len(v) = (IF keys = {} THEN 0 ELSE Cardinality(keys) - 1)
            /\ \A i, j \in 1..Len(v) : i # j => v[i] # v[j]}

\* for (auto& entry : samples_map) samples_vec.push_back(entry): every entry once,
\* in the iteration order of the unordered_map, which is any order.
CopyMapKeys(map) ==
    LET keys == DOMAIN map
    IN  {v \in SeqsUpTo(keys, Cardinality(keys)) :
            /\ Len(v) = Cardinality(keys)
            /\ \A i, j \in 1..Len(v) : i # j => v[i] # v[j]}

CopyMap(map) ==
    {[i \in 1..Len(v) |-> [first |-> v[i], second |-> map[v[i]]]] : v \in CopyMapKeys(map)}

----------------------------------------------------------------------------
(* GetAggregateAndSortHeapSnapshot (gperftools): the flattened array *)

\* [count, size, depth, stackframe 0, stackframe 1, ...]
FlatEntries == {<<c, b, Len(st)>> \o st : c \in HeapCounts, b \in Sizes, st \in Stacks}

\* ReadStackTraces: the entries one after the other, then a count of 0.
RECURSIVE FlatArrays(_)
FlatArrays(n) ==
    IF n = 0 THEN {<<0>>}
    ELSE LET rest == FlatArrays(n - 1)
         IN  rest \cup {e \o a : e \in FlatEntries, a \in rest}

GetSampleCount(arr, at) == arr[at]
GetSampleSize(arr, at) == arr[at + 1]
GetSampleDepth(arr, at) == arr[at + 2]
GetSampleProgramCounter(arr, at, i) == arr[at + 3 + i]

\* The frames of the sample at the cursor, frame 0 first.
StackAt(arr, at) ==
    [i \in 1..GetSampleDepth(arr, at) |-> GetSampleProgramCounter(arr, at, i - 1)]

\* entry.bytes += GetSampleSize(sample); entry.count += GetSampleCount(sample);
AddHeapSample(map, key, arr, at) ==
    LET entry == EntryOf(map, key)
    IN  Put(map, key, [bytes |-> entry.bytes + GetSampleSize(arr, at),
                       count |-> entry.count + GetSampleCount(arr, at)])

----------------------------------------------------------------------------
(* The aggregation pipeline *)

Init ==
    /\ pc = "aggregate"
    /\ \/ /\ backend = "google"
          /\ only_growth \in BOOLEAN
          /\ samples = <<>>
          /\ cursor = 0
       \/ /\ backend = "gperftools"
          /\ only_growth = FALSE
          /\ samples \in FlatArrays(MaxSamples)
          /\ cursor = 1
    /\ visited = EmptyBag
    /\ samples_map = <<>>
    /\ failed_symbolizations = 0
    /\ order = "kBytes"
    /\ unsorted = <<>>
    /\ samples_vec = <<>>
    /\ output = <<>>
    /\ sampling_rate = 1
    /\ rate0 = 1
    /\ tpc = [t \in Threads |-> "idle"]
    /\ prev_sample_rate = [t \in Threads |-> 1]
    /\ sample_freq_bytes = [t \in Threads |-> 1]
    /\ calls = [t \in Threads |-> 0]

\* One call of the lambda handed to profile.Iterate.
IterateSample ==
    /\ pc = "aggregate"
    /\ backend = "google"
    /\ BagCardinality(visited) < MaxSamples
    /\ \E s \in ProfileSamples :
        /\ visited' = visited (+) SetToBag({s})
        /\ IF KeepSample(s, only_growth)
           THEN /\ failed_symbolizations' = failed_symbolizations + FailedFrames(s.stack)
                /\ samples_map' = AddProfileSample(samples_map, StackKey(s.stack), s)
           ELSE UNCHANGED <<failed_symbolizations, samples_map>>
    /\ UNCHANGED <<pc, backend, only_growth, samples, cursor>>
    /\ UNCHANGED rankVars
    /\ UNCHANGED profVars

\* After Iterate: copy the map into the vector, sort, return.
FinishProfile ==
    /\ pc = "aggregate"
    /\ backend = "google"
    /\ \E ord \in Orders :
        \E v \in CopyMap(samples_map) :
            \E r \in SortSamplesByOrder(v, ord) :
                /\ order' = ord
                /\ samples_vec' = r
    /\ pc' = "returned"
    /\ UNCHANGED <<unsorted, output>>
    /\ UNCHANGED aggVars
    /\ UNCHANGED profVars

\* One round of the loop over the flattened array.
ScanSample ==
    /\ pc = "aggregate"
    /\ backend = "gperftools"
    /\ GetSampleCount(samples, cursor) # 0
    /\ LET stack == StackAt(samples, cursor)
       IN  /\ failed_symbolizations' = failed_symbolizations + FailedFrames(stack)
           /\ samples_map' = AddHeapSample(samples_map, StackKey(stack), samples, cursor)
           /\ visited' = visited (+) SetToBag({[count |-> GetSampleCount(samples, cursor),
                                                allocated_size |-> GetSampleSize(samples, cursor),
                                                is_censored |-> FALSE,
                                                depth |-> GetSampleDepth(samples, cursor),
                                                stack |-> stack]})
    /\ cursor' = cursor + 3 + GetSampleDepth(samples, cursor)
    /\ UNCHANGED <<pc, backend, only_growth, samples>>
    /\ UNCHANGED rankVars
    /\ UNCHANGED profVars

\* The loop ends at the count of 0: copy, sort, delete[] samples, return.
FinishHeapSnapshot ==
    /\ pc = "aggregate"
    /\ backend = "gperftools"
    /\ GetSampleCount(samples, cursor) = 0
    /\ \E ord \in Orders :
        \E v \in CopyMap(samples_map) :
            \E r \in SortSamplesByOrder(v, ord) :
                /\ order' = ord
                /\ samples_vec' = r
    /\ samples' = <<>>
    /\ cursor' = 0
    /\ pc' = "returned"
    /\ UNCHANGED <<unsorted, output>>
    /\ UNCHANGED <<backend, only_growth, visited, samples_map, failed_symbolizations>>
    /\ UNCHANGED profVars

Next == IterateSample \/ FinishProfile \/ ScanSample \/ FinishHeapSnapshot

Spec == Init /\ [][Next]_vars

----------------------------------------------------------------------------
(* GenerateTable *)

\* Integer division as C++ does it: the quotient truncated toward zero.
CppDiv(a, b) ==
    LET abs(x) == IF x < 0 THEN -x ELSE x
        q == abs(a) \div abs(b)
    IN  IF (a < 0) # (b < 0) THEN -q ELSE q

\* Variant of AvgBytes with the operands of the division exchanged.
AvgBytesSwapped(info) ==
    IF info.count <= 0 \/ info.bytes = 0 THEN 0 ELSE CppDiv(info.count, info.bytes)

\* entry.second.count <= 0 ? 0 : entry.second.bytes / entry.second.count
AvgBytes(info) ==
    IF info.count <= 0 THEN 0 ELSE CppDiv(info.bytes, info.count)

Row(entry) ==
    [bytes |-> entry.second.bytes,
     count |-> entry.second.count,
     avg   |-> AvgBytes(entry.second),
     stack |-> entry.first]

\* Variant of GenerateTable whose test for the truncation line is >=.
GenerateTableOffByOne(vec, max_call_stacks) ==
    [top       |-> max_call_stacks,
     truncated |-> IF Len(vec) >= max_call_stacks
                   THEN <<Len(vec) - max_call_stacks>> ELSE <<>>,
     rows      |-> [i \in 1..Min(max_call_stacks, Len(vec)) |-> Row(vec[i])]]

\* The header with the cutoff, the "call stacks truncated" line when there is
\* one (with its number), and the rows of the table body.
GenerateTable(vec, max_call_stacks) ==
    [top       |-> max_call_stacks,
     truncated |-> IF Len(vec) > max_call_stacks
                   THEN <<Len(vec) - max_call_stacks>> ELSE <<>>,
     rows      |-> [i \in 1..Min(max_call_stacks, Len(vec)) |-> Row(vec[i])]]

----------------------------------------------------------------------------
(* Ranking and rendering of any list of entries *)

\* The lists of at most MaxEntries entries with distinct stack texts: the
\* entry at position i has the text of a stack of i frames.
RECURSIVE TextOf(_)
TextOf(i) == IF i = 0 THEN <<>> ELSE TextOf(i - 1) \o <<"foo", "\n">>

EntryLists ==
    UNION {[1..n -> [bytes : InfoBytes, count : InfoCounts]] : n \in 0..MaxEntries}

InitRank ==
    /\ pc = "collected"
    /\ backend = "google"
    /\ only_growth = FALSE
    /\ visited = EmptyBag
    /\ samples = <<>>
    /\ cursor = 0
    /\ samples_map = <<>>
    /\ failed_symbolizations = 0
    /\ order = "kBytes"
    /\ unsorted = <<>>
    /\ \E infos \in EntryLists :
        samples_vec = [i \in 1..Len(infos) |-> [first |-> TextOf(i), second |-> infos[i]]]
    /\ output = <<>>
    /\ sampling_rate = 1
    /\ rate0 = 1
    /\ tpc = [t \in Threads |-> "idle"]
    /\ prev_sample_rate = [t \in Threads |-> 1]
    /\ sample_freq_bytes = [t \in Threads |-> 1]
    /\ calls = [t \in Threads |-> 0]

\* SortSamplesByOrder(&samples_vec, order)
Sort ==
    /\ pc = "collected"
    /\ \E ord \in Orders :
        \E r \in SortSamplesByOrder(samples_vec, ord) :
            /\ order' = ord
            /\ samples_vec' = r
    /\ unsorted' = samples_vec
    /\ pc' = "returned"
    /\ UNCHANGED output
    /\ UNCHANGED aggVars
    /\ UNCHANGED profVars

\* GenerateTable(output, samples_vec, title, max_call_stacks)
Render ==
    /\ pc = "returned"
    /\ \E max_call_stacks \in 0..MaxCallStacks :
        output' = GenerateTable(samples_vec, max_call_stacks)
    /\ pc' = "rendered"
    /\ UNCHANGED <<order, unsorted, samples_vec>>
    /\ UNCHANGED aggVars
    /\ UNCHANGED profVars

NextRank == Sort \/ Render

SpecRank == InitRank /\ [][NextRank]_vars

----------------------------------------------------------------------------
(* GetAllocationProfile, called by concurrent report requests *)

InitProfile ==
    /\ pc = "collected"
    /\ backend = "google"
    /\ only_growth = FALSE
    /\ visited = EmptyBag
    /\ samples = <<>>
    /\ cursor = 0
    /\ samples_map = <<>>
    /\ failed_symbolizations = 0
    /\ order = "kBytes"
    /\ unsorted = <<>>
    /\ samples_vec = <<>>
    /\ output = <<>>
    /\ sampling_rate \in Rates
    /\ rate0 = sampling_rate
    /\ tpc = [t \in Threads |-> "idle"]
    /\ prev_sample_rate = [t \in Threads |-> sampling_rate]
    /\ sample_freq_bytes = [t \in Threads |-> sampling_rate]
    /\ calls = [t \in Threads |-> 0]

\* A report request enters GetAllocationProfile(seconds, sample_freq_bytes).
Call(t) ==
    /\ tpc[t] = "idle"
    /\ calls[t] < MaxCalls
    /\ \E f \in Rates : sample_freq_bytes' = [sample_freq_bytes EXCEPT ![t] = f]
    /\ calls' = [calls EXCEPT ![t] = @ + 1]
    /\ tpc' = [tpc EXCEPT ![t] = "get_rate"]
    /\ UNCHANGED <<sampling_rate, rate0, prev_sample_rate>>
    /\ UNCHANGED pc
    /\ UNCHANGED aggVars
    /\ UNCHANGED rankVars

\* auto prev_sample_rate = GetProfileSamplingRate();
GetRate(t) ==
    /\ tpc[t] = "get_rate"
    /\ prev_sample_rate' = [prev_sample_rate EXCEPT ![t] = sampling_rate]
    /\ tpc' = [tpc EXCEPT ![t] = "set_rate"]
    /\ UNCHANGED <<sampling_rate, rate0, sample_freq_bytes, calls>>
    /\ UNCHANGED pc
    /\ UNCHANGED aggVars
    /\ UNCHANGED rankVars

\* SetProfileSamplingRate(sample_freq_bytes); StartLifetimeProfiling(...)
SetRate(t) ==
    /\ tpc[t] = "set_rate"
    /\ sampling_rate' = sample_freq_bytes[t]
    /\ tpc' = [tpc EXCEPT ![t] = "sleeping"]
    /\ UNCHANGED <<rate0, prev_sample_rate, sample_freq_bytes, calls>>
    /\ UNCHANGED pc
    /\ UNCHANGED aggVars
    /\ UNCHANGED rankVars

\* SleepFor(seconds) ends; SetProfileSamplingRate(prev_sample_rate); return.
Restore(t) ==
    /\ tpc[t] = "sleeping"
    /\ sampling_rate' = prev_sample_rate[t]
    /\ tpc' = [tpc EXCEPT ![t] = "idle"]
    /\ UNCHANGED <<rate0, prev_sample_rate, sample_freq_bytes, calls>>
    /\ UNCHANGED pc
    /\ UNCHANGED aggVars
    /\ UNCHANGED rankVars

CallAny == \E t \in Threads : Call(t)
GetRateAny == \E t \in Threads : GetRate(t)
SetRateAny == \E t \in Threads : SetRate(t)
RestoreAny == \E t \in Threads : Restore(t)

NextProfile == CallAny \/ GetRateAny \/ SetRateAny \/ RestoreAny

SpecProfile == InitProfile /\ [][NextProfile]_vars

----------------------------------------------------------------------------
(* Properties of the aggregation *)

\* The samples the aggregator keeps: with tcmalloc those of positive count,
\* censored ones only in growth-only mode; with gperftools every sample read.
Retained(s) ==
    IF backend = "google"
    THEN s.count > 0 /\ (only_growth => s.is_censored)
    ELSE TRUE

\* The text a frame contributes to the stack text.
FrameLine(a) ==
    IF Symbolize(a, BufSize).ok THEN SymbolTable[a].name ELSE "Failed to symbolize"

\* The stack text of sample s is text k: one line per frame, in frame order.
HasText(s, k) ==
    /\ Len(k) = 2 * s.depth
    /\ \A i \in 1..s.depth : k[2 * i - 1] = FrameLine(s.stack[i]) /\ k[2 * i] = "\n"

RetainedSet == {s \in BagToSet(visited) : Retained(s)}
RetainedWithText(k) == {s \in RetainedSet : HasText(s, k)}

SumOfCounts(S) == SumF([s \in S |-> CopiesIn(s, visited) * s.count], S)
SumOfBytes(S) == SumF([s \in S |-> CopiesIn(s, visited) * s.allocated_size], S)
UnresolvedFrames(s) == Cardinality({i \in 1..s.depth : ~Symbolize(s.stack[i], BufSize).ok})

\* C1: in both aggregators the count of every entry is the sum of the counts
\* (sample.count) of the retained samples whose stack text is the entry's key.
C1_CountIsSumOfSampleCounts ==
    \A k \in DOMAIN samples_map :
        samples_map[k].count = SumOfCounts(RetainedWithText(k))

\* C2: in AggregateAndSortProfile, under both values of only_growth, the bytes of
\* every entry are the sum of the byte totals (allocated_size) of the retained
\* samples whose stack text is the entry's key, every retained sample has its
\* entry, and the bytes of all entries sum to the bytes of all retained samples.
C2_BytesAreSumOfSampleBytes ==
    backend = "google" =>
        /\ \A k \in DOMAIN samples_map :
              samples_map[k].bytes = SumOfBytes(RetainedWithText(k))
        /\ \A s \in RetainedSet : \E k \in DOMAIN samples_map : HasText(s, k)
        /\ SumF([k \in DOMAIN samples_map |-> samples_map[k].bytes], DOMAIN samples_map)
              = SumOfBytes(RetainedSet)

C2_Witness ==
    /\ backend = "google"
    /\ only_growth
    /\ \E k \in DOMAIN samples_map :
          /\ Cardinality(RetainedWithText(k)) = 2
          /\ samples_map[k].bytes = 3

\* C3: in AggregateAndSortProfile an entry exists for a stack text if and only if
\* some visited sample with that text has count > 0 and, in growth-only mode, is
\* censored; and visiting a sample that fails this test leaves the map as it was.
C3_EntryIffRetainedSample ==
    /\ [](backend = "google" =>
            /\ \A k \in DOMAIN samples_map : RetainedWithText(k) # {}
            /\ \A s \in RetainedSet : \E k \in DOMAIN samples_map : HasText(s, k))
    /\ [][\A s \in BagToSet(visited') :
            (/\ backend = "google"
             /\ CopiesIn(s, visited') > CopiesIn(s, visited)
             /\ ~(s.count > 0 /\ (only_growth => s.is_censored)))
            => samples_map' = samples_map]_vars

C3_Witness ==
    /\ backend = "google"
    /\ only_growth
    /\ Cardinality(DOMAIN samples_map) = 1
    /\ \E s \in BagToSet(visited) : s.count > 0 /\ ~s.is_censored
    /\ \E s \in BagToSet(visited) : s.count > 0 /\ s.is_censored

\* C9: symbolization failures do not stop the aggregation: every retained sample
\* has an entry whose key has one line per frame, in frame order, the line of a
\* frame that does not resolve being "Failed to symbolize"; and the failure
\* counter is the number of unresolved frames of the retained samples.
C9_FailedFramesBecomePlaceholders ==
    /\ \A s \in RetainedSet :
          \E k \in DOMAIN samples_map : HasText(s, k) /\ samples_map[k].count > 0
    /\ failed_symbolizations =
          SumF([s \in RetainedSet |-> CopiesIn(s, visited) * UnresolvedFrames(s)], RetainedSet)

C9_Witness ==
    /\ pc = "returned"
    /\ failed_symbolizations = 2
    /\ <<"Failed to symbolize", "\n", "Failed to symbolize", "\n">> \in DOMAIN samples_map
    /\ \E s \in BagToSet(visited) : ~Retained(s) /\ UnresolvedFrames(s) > 0

\* C6: the list returned is a permutation of the aggregated map: one pair per
\* key of the map, with the bytes and the count the map holds for it.
C6_RankedListIsTheMap ==
    pc = "returned" =>
        /\ Len(samples_vec) = Cardinality(DOMAIN samples_map)
        /\ \A i \in 1..Len(samples_vec) :
              /\ samples_vec[i].first \in DOMAIN samples_map
              /\ samples_vec[i].second = samples_map[samples_vec[i].first]
        /\ \A k \in DOMAIN samples_map :
              Cardinality({i \in 1..Len(samples_vec) : samples_vec[i].first = k}) = 1

C6_Witness ==
    /\ pc = "returned"
    /\ Len(samples_vec) = 2
    /\ samples_vec[1].second # samples_vec[2].second

----------------------------------------------------------------------------
(* Properties of the ranking and of the table *)

\* The value an entry is ranked by.
ChosenKey(e, ord) == IF ord = "kBytes" THEN e.second.bytes ELSE e.second.count

\* The stable descending sort: each entry goes behind every entry already
\* placed whose value is at least its own.
InsertStable(sorted, e, ord) ==
    LET before == {i \in 1..Len(sorted) : ChosenKey(sorted[i], ord) >= ChosenKey(e, ord)}
        n == Cardinality(before)
    IN  SubSeq(sorted, 1, n) \o <<e>> \o SubSeq(sorted, n + 1, Len(sorted))

RECURSIVE StableSort(_, _)
StableSort(vec, ord) ==
    IF vec = <<>> THEN <<>>
    ELSE InsertStable(StableSort(SubSeq(vec, 1, Len(vec) - 1), ord), vec[Len(vec)], ord)

\* C4: after SortSamplesByOrder every adjacent pair of the list is non-increasing
\* in the chosen value: bytes with kBytes, count with the count order.
C4_SortedNonIncreasing ==
    pc \in {"returned", "rendered"} =>
        \A i \in 1..(Len(samples_vec) - 1) :
            IF order = "kBytes"
            THEN samples_vec[i].second.bytes >= samples_vec[i + 1].second.bytes
            ELSE samples_vec[i].second.count >= samples_vec[i + 1].second.count

C4_Witness ==
    /\ pc = "returned"
    /\ order = "kCount"
    /\ Len(samples_vec) = MaxEntries
    /\ samples_vec # unsorted
    /\ samples_vec[1].second.count > samples_vec[MaxEntries].second.count
    /\ samples_vec[1].second.bytes < samples_vec[MaxEntries].second.bytes

\* C5 as stated: the ranking is a stable sort, the entries of equal value keeping
\* the order they had in the list handed to the sort.
C5_RankingIsStable ==
    pc = "returned" => samples_vec = StableSort(unsorted, order)

\* C5, amended: the ranking fixes the value at every position of the list (the
\* values are those of the stable sort, position by position), while entries of
\* equal value may come out in any order.
C5_ValuesAreThoseOfTheStableSort ==
    pc = "returned" =>
        /\ Len(samples_vec) = Len(unsorted)
        /\ \A i \in 1..Len(samples_vec) :
              ChosenKey(samples_vec[i], order) = ChosenKey(StableSort(unsorted, order)[i], order)

C5_Witness ==
    /\ pc = "returned"
    /\ samples_vec # StableSort(unsorted, order)
    /\ \E i, j \in 1..Len(samples_vec) :
          ChosenKey(samples_vec[i], order) # ChosenKey(samples_vec[j], order)

\* C7: GenerateTable writes the truncation line if and only if the list is longer
\* than max_call_stacks, the number on it is the length minus max_call_stacks, and
\* the table has min(max_call_stacks, length) rows, the first entries of the list
\* in order; an empty list gives no row and no line.
C7_TruncationNoticeAndRows ==
    pc = "rendered" =>
        LET n == Len(samples_vec)
            m == output.top
        IN  /\ (output.truncated # <<>>) <=> (n > m)
            /\ n > m => output.truncated = <<n - m>>
            /\ Len(output.rows) = (IF m < n THEN m ELSE n)
            /\ \A i \in 1..Len(output.rows) : output.rows[i].stack = samples_vec[i].first
            /\ n = 0 => output.rows = <<>> /\ output.truncated = <<>>

C7_Witness ==
    /\ pc = "rendered"
    /\ Len(samples_vec) = MaxEntries
    /\ output.top = 1
    /\ output.truncated = <<MaxEntries - 1>>
    /\ Len(output.rows) = 1

\* C8: the average of every row is 0 when the entry's count is 0 and the floor of
\* bytes / count otherwise.
C8_AverageIsFloorOrZero ==
    pc = "rendered" =>
        \A i \in 1..Len(output.rows) :
            LET info == samples_vec[i].second
            IN  /\ output.rows[i].bytes = info.bytes
                /\ output.rows[i].count = info.count
                /\ info.count = 0 => output.rows[i].avg = 0
                /\ info.count # 0 =>
                      /\ output.rows[i].avg * info.count <= info.bytes
                      /\ info.bytes < (output.rows[i].avg + 1) * info.count

C8_Witness ==
    /\ pc = "rendered"
    /\ \E i \in 1..Len(output.rows) :
          samples_vec[i].second.count = 0 /\ samples_vec[i].second.bytes > 0
    /\ \E i \in 1..Len(output.rows) :
          /\ samples_vec[i].second = [bytes |-> 3, count |-> 2]
          /\ output.rows[i].avg = 1

----------------------------------------------------------------------------
(* Property of GetAllocationProfile *)

\* C10: once every call of GetAllocationProfile has returned, the sampling rate
\* is the rate there was before the first call, also when calls overlap.
C10_SamplingRateRestored ==
    (\A t \in Threads : tpc[t] = "idle") => sampling_rate = rate0

====
